---- MODULE Spec2Model ----
(***************************************************************************)
(* tap-bing-ads: schema discovery (wsdl_type_to_schema, get_type_map,      *)
(* discover_core_objects) and the account -> campaign -> ad group -> ad    *)
(* sync walk (do_sync_all_accounts), modelled from tap_bing_ads/__init__.py *)
(***************************************************************************)
EXTENDS Integers, Sequences, FiniteSets, TLC

VARIABLES
    \* ---- wsdl_type_to_schema / get_json_schema -------------------------
    wsdl_type,      \* the type descriptor handed to wsdl_type_to_schema
    schema,         \* what wsdl_type_to_schema returned (or raised)
    element,        \* the element handed to get_json_schema
    element_schema, \* what get_json_schema returned (or raised)
    \* ---- get_type_map --------------------------------------------------
    types,          \* client.soap_client.sd[0].types, in declaration order
    heap,           \* the dict objects created so far, by identity (index)
    type_map,       \* type_map: sequence of <<type name, object identity>>
    pass1,          \* the fragments as pass 1 produced them (history)
    tm_pc,          \* position inside get_type_map
    tm_i,           \* loop index of the running pass
    \* ---- discover_core_objects -----------------------------------------
    services,       \* the two remote services: reachable, enumerable, type names
    d_pc,           \* position inside discover_core_objects
    d_type_map,     \* keys of the type_map of the service at hand
    built,          \* services whose type map has been built (history)
    streams,        \* streams
    stdout,         \* documents json.dump wrote to sys.stdout
    \* ---- do_sync_all_accounts / main -----------------------------------
    remote,         \* remote[a]: the campaigns of account a, each a list of
                    \* ad groups, each the number of its ads
    account_ids,    \* CONFIG['account_ids'].split(",")
    selected_streams,
    pc,             \* position inside the sync of the account at hand
    acct,           \* index into account_ids of the account at hand
    campaign_ids,   \* campaign_ids of sync_core_objects
    ci,             \* campaigns consumed by the loop of sync_ad_groups
    ad_group_ids,   \* ad_group_ids of sync_ad_groups / sync_ads
    gi,             \* items consumed by the loop of sync_ads
    records,        \* singer.write_record calls, in order; "at" is the number
                    \* of remote calls issued before the record (history)
    calls,          \* remote calls issued, in order, with their outcome
    critical        \* exceptions logged by LOGGER.critical and re-raised

schema_vars  == <<wsdl_type, schema, element, element_schema>>
typemap_vars == <<types, heap, type_map, pass1, tm_pc, tm_i>>
discover_vars == <<services, d_pc, d_type_map, built, streams, stdout>>
sync_vars == <<remote, account_ids, selected_streams, pc, acct, campaign_ids, ci,
               ad_group_ids, gi, records, calls, critical>>

(***************************************************************************)
(* Bounds of the model                                                     *)
(***************************************************************************)
MaxChildren == 2    \* child elements of the type given to wsdl_type_to_schema
MaxTypes == 3       \* types a service declares (get_type_map)
MaxElems == 2       \* child elements of all the types of a service together
MaxAccounts == 2    \* configured account ids
MaxNodes == 5       \* campaigns, ad groups and ads of all accounts together

(***************************************************************************)
(* Names.  A type name is the sequence of its word tokens, so that the     *)
(* substring test and the regular expression of the source can be applied  *)
(* to it: <<"ArrayOf", "string">> is the text ArrayOfstring.               *)
(***************************************************************************)
LowerTokens == {"string", "long", "int", "date", "boolean", "decimal",
                "float", "double", "duration"}

\* A namespace is <<scheme and host, path>>, so that the source's substring
\* tests on qname[1] can be applied to it.
XSD  == <<"http://www.w3.org", "/2001/XMLSchema">>
BING == <<"https://bingads.microsoft.com", "/CampaignManagement/v11">>
DATACONTRACT == <<"http://schemas.datacontract.org", "/2004/07/System.Collections.Generic">>
ARR  == <<"http://schemas.microsoft.com", "/2003/10/Serialization/Arrays">>

\* needle in qname, for a needle that is a scheme-and-host
Contains(qname, needle) == \E i \in 1..Len(qname) : qname[i] = needle

RECURSIVE Text(_)
Text(name) == IF name = <<>> THEN "" ELSE Head(name) \o Text(Tail(name))

\* 'ArrayOfstring' in _type
ContainsArrayOfstring(name) ==
    \E i \in 1..(Len(name) - 1) : name[i] = "ArrayOf" /\ name[i + 1] = "string"

\* the run of lower-case tokens at the head of a name: what [a-z]+ consumes
RECURSIVE LowerRun(_)
LowerRun(name) ==
    IF name # <<>> /\ Head(name) \in LowerTokens
    THEN <<Head(name)>> \o LowerRun(Tail(name))
    ELSE <<>>

(***************************************************************************)
(* JSON values.  One record shape for every value a schema can hold:       *)
(*   tag "str"    a Python str (a placeholder naming a type): name         *)
(*   tag "schema" {type: [...], format?, enum?}                            *)
(*   tag "array"  {type: 'array', items: {type: items}}                    *)
(*   tag "object" {type: ['object'], additionalProperties: False,          *)
(*                 properties: {...}} ; properties keeps insertion order   *)
(*   tag "ptr"    a reference to the dict object heap[ptr]                 *)
(*   tag "raise"  the call raised the exception named by format            *)
(***************************************************************************)
Blank == [tag |-> "", name |-> <<>>, type |-> <<>>, format |-> "",
          enum |-> <<>>, items |-> "", properties |-> <<>>,
          additionalProperties |-> TRUE, ptr |-> 0]

Str(name)      == [Blank EXCEPT !.tag = "str", !.name = name]
ArrayOf(items) == [Blank EXCEPT !.tag = "array", !.items = items]
Object(props)  == [Blank EXCEPT !.tag = "object", !.type = <<"object">>,
                                !.additionalProperties = FALSE,
                                !.properties = props]
Ptr(cell)      == [Blank EXCEPT !.tag = "ptr", !.ptr = cell]
Raise(exc)     == [Blank EXCEPT !.tag = "raise", !.format = exc]
Scalar(ts, format, enum) ==
    [Blank EXCEPT !.tag = "schema", !.type = ts, !.format = format, !.enum = enum]

None == Blank

\* d[k] = v on a dict that keeps insertion order
DictSet(d, k, v) ==
    IF \E i \in 1..Len(d) : d[i].key = k
    THEN [i \in 1..Len(d) |-> IF d[i].key = k THEN [key |-> k, val |-> v] ELSE d[i]]
    ELSE Append(d, [key |-> k, val |-> v])

(***************************************************************************)
(* Descriptors (suds schema objects), as far as the source reads them:     *)
(*   root      root.name                                                   *)
(*   name      name                                                        *)
(*   nillable  nillable                                                    *)
(*   type      <<>> for None, else <<type name, namespace>>                *)
(*   ref       <<>> for None, else <<type name, namespace>>                *)
(*   enum      names of rawchildren[0].rawchildren of a simpleType         *)
(*   children  rawchildren[0].rawchildren of a complex type                *)
(*   qname     qname[1], the namespace a type is declared in               *)
(* An xs:enumeration facet carries a value and no type attribute: its type  *)
(* is None, unless the document gives it one.                              *)
(***************************************************************************)
Elem(root, name, nillable, type, ref) ==
    [root |-> root, name |-> name, nillable |-> nillable, type |-> type,
     ref |-> ref, enum |-> <<>>, children |-> <<>>, qname |-> <<>>]

ComplexType(name, qname, children) ==
    [root |-> "complexType", name |-> name, nillable |-> FALSE, type |-> <<>>,
     ref |-> <<>>, enum |-> <<>>, children |-> children, qname |-> qname]

SimpleType(name, qname, enum) ==
    [root |-> "simpleType", name |-> name, nillable |-> FALSE, type |-> <<>>,
     ref |-> <<>>, enum |-> enum, children |-> <<>>, qname |-> qname]

\* xml_to_json_type without the branch for long
xml_to_json_type_nolong(xml_type) ==
    IF xml_type = "boolean" THEN "boolean"
    ELSE IF xml_type \in {"decimal", "float", "double", "long"} THEN "number"
    ELSE "string"

xml_to_json_type(xml_type) ==
    IF xml_type = "boolean" THEN "boolean"
    ELSE IF xml_type \in {"decimal", "float", "double"} THEN "number"
    ELSE IF xml_type = "long" THEN "integer"
    ELSE IF xml_type \in {"dateTime", "date"} THEN "string"
    ELSE "string"

get_json_schema(e) ==
    LET nul == IF e.nillable THEN <<"null">> ELSE <<>> IN
    IF e.root = "simpleType"
    THEN Scalar(nul \o <<"string">>, "", e.enum)
    ELSE IF e.type = <<>>
    THEN Raise("TypeError")                       \* None[0]
    ELSE LET xml_type == Text(e.type[1]) IN
         Scalar(nul \o <<xml_to_json_type(xml_type)>>,
                IF xml_type \in {"dateTime", "date"} THEN "date-time" ELSE "",
                <<>>)

\* re.match(r'ArrayOf([a-z]+)', array_type).groups()[0]
get_array_type(array_type) ==
    IF array_type # <<>> /\ Head(array_type) = "ArrayOf"
       /\ LowerRun(Tail(array_type)) # <<>>
    THEN ArrayOf(xml_to_json_type(Text(LowerRun(Tail(array_type)))))
    ELSE Raise("AttributeError")                  \* None.groups()

\* the value stored under one child's name, lines 125-136
property_of(e) ==
    IF e.root = "enumeration" THEN get_json_schema(e)
    ELSE IF e.type = <<>> /\ e.ref # <<>> THEN Str(e.ref[1])
    ELSE IF e.type = <<>> THEN Raise("TypeError") \* None[1]
    ELSE IF e.type[2] # XSD
    THEN IF ContainsArrayOfstring(e.type[1])
         THEN get_array_type(e.type[1])
         ELSE Str(e.type[1])
    ELSE get_json_schema(e)

RECURSIVE properties_of(_, _)
properties_of(children, properties) ==
    IF children = <<>> THEN Object(properties)
    ELSE LET v == property_of(Head(children)) IN
         IF v.tag = "raise" THEN v
         ELSE properties_of(Tail(children),
                            DictSet(properties, Head(children).name, v))

wsdl_type_to_schema(t) ==
    IF t.root = "simpleType" THEN get_json_schema(t)
    ELSE properties_of(t.children, <<>>)

(***************************************************************************)
(* get_type_map.  Every dict that wsdl_type_to_schema returns is one Python *)
(* object: heap[c] is the current content of object c, type_map binds a    *)
(* name to an object and a property value Ptr(c) IS object c (assignment   *)
(* of a dict stores a reference, line 147).                                *)
(***************************************************************************)
TMHas(tm, name) == \E i \in 1..Len(tm) : tm[i].key = name
TMGet(tm, name) == tm[CHOOSE i \in 1..Len(tm) : tm[i].key = name].val

\* fill_in_nested_types storing a copy of the entry as it is at that moment
fill_in_nested_types_copy(tm, h, cell) ==
    [h EXCEPT ![cell].properties =
        [i \in 1..Len(h[cell].properties) |->
            LET d == h[cell].properties[i] IN
            IF d.val.tag = "str" /\ TMHas(tm, d.val.name)
            THEN [key |-> d.key, val |-> h[TMGet(tm, d.val.name)]]
            ELSE d]]

\* fill_in_nested_types storing the schema being filled in, not the entry
fill_in_nested_types_self(tm, h, cell) ==
    [h EXCEPT ![cell].properties =
        [i \in 1..Len(h[cell].properties) |->
            LET d == h[cell].properties[i] IN
            IF d.val.tag = "str" /\ TMHas(tm, d.val.name)
            THEN [key |-> d.key, val |-> Ptr(cell)]
            ELSE d]]

\* fill_in_nested_types written with type_map.get(descriptor), no membership test
fill_in_nested_types_get(tm, h, cell) ==
    [h EXCEPT ![cell].properties =
        [i \in 1..Len(h[cell].properties) |->
            LET d == h[cell].properties[i] IN
            IF d.val.tag = "str"
            THEN [key |-> d.key,
                  val |-> IF TMHas(tm, d.val.name)
                          THEN Ptr(TMGet(tm, d.val.name)) ELSE None]
            ELSE d]]

\* schema['properties'][prop] = type_map[descriptor], for every str
\* descriptor that is a key of type_map; returns the heap afterwards
fill_in_nested_types(tm, h, cell) ==
    [h EXCEPT ![cell].properties =
        [i \in 1..Len(h[cell].properties) |->
            LET d == h[cell].properties[i] IN
            IF d.val.tag = "str" /\ TMHas(tm, d.val.name)
            THEN [key |-> d.key, val |-> Ptr(TMGet(tm, d.val.name))]
            ELSE d]]

\* what a reader of the returned map finds at a value
Resolve(h, v) == IF v.tag = "ptr" THEN h[v.ptr] ELSE v

\* the value of property number i of an object fragment, references followed
PropAt(h, obj, i) == Resolve(h, obj.properties[i].val)

InOwnNamespace(qname) ==
    ~ (~ Contains(qname, "https://bingads.microsoft.com")
       /\ ~ Contains(qname, "http://schemas.datacontract.org"))

(***************************************************************************)
(* SpecSchema: wsdl_type_to_schema and get_json_schema applied to every    *)
(* type descriptor of up to MaxChildren child elements.                    *)
(***************************************************************************)
Primitives == {<<"boolean">>, <<"decimal">>, <<"float">>, <<"double">>,
               <<"long">>, <<"date", "Time">>, <<"date">>, <<"int">>,
               <<"string">>, <<"duration">>}

ServiceTypeNames == {<<"ArrayOf", "string">>, <<"ArrayOf", "long">>,
                     <<"ArrayOf", "int">>, <<"ArrayOf", "date", "Time">>,
                     <<"ArrayOf", "ArrayOf", "string">>,
                     <<"ArrayOf", "Campaign">>, <<"Campaign">>}

NamespaceOf(name) == IF Head(name) = "ArrayOf" /\ name[2] # "Campaign" THEN ARR ELSE BING

PropName(i) == "p" \o ToString(i)

\* the child elements a complex type can declare, at position i
Children(i) ==
    {Elem("element", PropName(i), n, <<t, XSD>>, <<>>) : n \in BOOLEAN, t \in Primitives}
    \cup {Elem("enumeration", PropName(i), FALSE, <<>>, <<>>),
          Elem("enumeration", PropName(i), FALSE, <<<<"string">>, XSD>>, <<>>)}
    \cup {Elem("element", PropName(i), FALSE, <<>>, <<<<"Campaign">>, BING>>)}
    \cup {Elem("element", PropName(i), FALSE, <<t, NamespaceOf(t)>>, <<>>) :
              t \in ServiceTypeNames}

RECURSIVE ChildSeqs(_)
ChildSeqs(n) ==
    IF n = 0 THEN {<<>>}
    ELSE LET shorter == ChildSeqs(n - 1) IN
         shorter \cup {Append(s, c) : s \in {x \in shorter : Len(x) = n - 1},
                                      c \in Children(n)}

SchemaIdle ==
    /\ wsdl_type = None /\ schema = None
    /\ element = None /\ element_schema = None

TypeMapIdle ==
    /\ types = <<>> /\ heap = <<>> /\ type_map = <<>> /\ pass1 = <<>>
    /\ tm_pc = "idle" /\ tm_i = 0

DiscoverIdle ==
    /\ services = <<>> /\ d_pc = "idle" /\ d_type_map = {} /\ built = {}
    /\ streams = <<>> /\ stdout = <<>>

SyncIdle ==
    /\ remote = <<>> /\ account_ids = <<>> /\ selected_streams = {}
    /\ pc = "idle" /\ acct = 0 /\ campaign_ids = <<>> /\ ci = 0
    /\ ad_group_ids = <<>> /\ gi = 0
    /\ records = <<>> /\ calls = <<>> /\ critical = <<>>

InitSchema ==
    /\ wsdl_type \in {ComplexType(<<"Campaign">>, BING, cs) : cs \in ChildSeqs(MaxChildren)}
                     \cup {SimpleType(<<"Status">>, BING, e) :
                              e \in {<<>>, <<"Active">>, <<"Active", "Paused">>}}
    /\ schema = None /\ element = None /\ element_schema = None
    /\ TypeMapIdle
    /\ DiscoverIdle
    /\ SyncIdle

\* schema = wsdl_type_to_schema(wsdl_type)
Infer ==
    /\ schema = None
    /\ schema' = wsdl_type_to_schema(wsdl_type)
    /\ UNCHANGED <<wsdl_type, element, element_schema>>
    /\ UNCHANGED <<typemap_vars, discover_vars, sync_vars>>

\* one of the calls get_json_schema(element) that wsdl_type_to_schema makes
MapElement ==
    /\ element = None
    /\ \E i \in 1..Len(wsdl_type.children) :
          LET e == wsdl_type.children[i] IN
          /\ e.root = "enumeration" \/ (e.type # <<>> /\ e.type[2] = XSD)
          /\ element' = e
          /\ element_schema' = get_json_schema(e)
    /\ UNCHANGED <<wsdl_type, schema>>
    /\ UNCHANGED <<typemap_vars, discover_vars, sync_vars>>

NextSchema == Infer \/ MapElement

vars == <<schema_vars, typemap_vars, discover_vars, sync_vars>>

SpecSchema == InitSchema /\ [][NextSchema]_vars

(***************************************************************************)
(* Claims about wsdl_type_to_schema and get_json_schema (SpecSchema)       *)
(***************************************************************************)
Kids == 1..Len(wsdl_type.children)
Returned == wsdl_type.root = "complexType" /\ schema # None

\* the type of the child is in a namespace other than the built-in one
Foreign(e) == e.root = "element" /\ e.type # <<>> /\ e.type[2] # XSD

\* the type name is ArrayOf<scalar> for a primitive scalar name
ArrayOfScalar(name) ==
    Len(name) >= 2 /\ Head(name) = "ArrayOf" /\ Tail(name) \in Primitives

\* the child names another type: by ref, or by a type name that is not
\* built of ArrayOf and a scalar
CrossTypeReference(e) ==
    \/ e.root = "element" /\ e.type = <<>> /\ e.ref # <<>>
    \/ Foreign(e) /\ \A i \in 1..Len(e.type[1]) : e.type[1][i] \notin LowerTokens

ReferencedName(e) == IF e.type = <<>> THEN e.ref[1] ELSE e.type[1]

\* the child is of one of the four kinds of C5
OfTheFourKinds(e) ==
    \/ e.root = "element" /\ e.type # <<>> /\ e.type[2] = XSD
    \/ e.root = "enumeration"
    \/ Foreign(e) /\ ArrayOfScalar(e.type[1])
    \/ CrossTypeReference(e)

\* C5 as stated: for a complex type of N children, each a primitive, an
\* enumeration, an array of primitives or a cross-type reference,
\* wsdl_type_to_schema returns an object fragment (type [object],
\* additionalProperties false) of exactly N properties in declaration order
\* in which every cross-type reference is the bare name of the referenced type.
C5_ObjectOfNProperties ==
    (Returned /\ \A i \in Kids : OfTheFourKinds(wsdl_type.children[i])) =>
        /\ schema.tag = "object"
        /\ schema.type = <<"object">>
        /\ ~ schema.additionalProperties
        /\ Len(schema.properties) = Len(wsdl_type.children)
        /\ \A i \in Kids :
              /\ schema.properties[i].key = wsdl_type.children[i].name
              /\ CrossTypeReference(wsdl_type.children[i]) =>
                    schema.properties[i].val = Str(ReferencedName(wsdl_type.children[i]))

\* C6 as stated: in what wsdl_type_to_schema returns, every child whose type
\* is in a non-built-in namespace and is named ArrayOf<scalar> is an array
\* fragment whose items type is the scalar mapping of <scalar>, and no such
\* child is a placeholder string.
C6_ArrayOfAnyScalar ==
    (Returned /\ schema.tag = "object") =>
        \A i \in Kids :
            LET e == wsdl_type.children[i] IN
            (Foreign(e) /\ ArrayOfScalar(e.type[1])) =>
                schema.properties[i].val = ArrayOf(xml_to_json_type(Text(Tail(e.type[1]))))

BuiltIn(e) == e # None /\ e.root = "element" /\ e.type # <<>> /\ e.type[2] = XSD

\* C7: for a built-in primitive element of type t and nillable flag n,
\* get_json_schema does not raise and returns type = (null if n) followed by
\* one JSON type: boolean for boolean, number for decimal, float and double,
\* integer for long, string for dateTime, date and every other name; format
\* is date-time exactly when t is dateTime or date.
C7_ScalarMapping ==
    BuiltIn(element) =>
        LET t == Text(element.type[1])
            json == CASE t = "boolean" -> "boolean"
                      [] t \in {"decimal", "float", "double"} -> "number"
                      [] t = "long" -> "integer"
                      [] OTHER -> "string"
        IN
        /\ element_schema.tag = "schema"
        /\ element_schema.type = (IF element.nillable THEN <<"null">> ELSE <<>>) \o <<json>>
        /\ element_schema.format \in {"", "date-time"}
        /\ element_schema.format = "date-time" <=> t \in {"dateTime", "date"}
        /\ element_schema.enum = <<>>

\* a nillable dateTime yields {type: [null, string], format: date-time}
C7_Witness ==
    /\ BuiltIn(element)
    /\ element.nillable /\ Text(element.type[1]) = "dateTime"
    /\ element_schema = Scalar(<<"null", "string">>, "date-time", <<>>)

(***************************************************************************)
(* SpecTypeMap: get_type_map over every service of up to MaxTypes types    *)
(* with up to MaxElems child elements in all.  A child is a long or names  *)
(* a type T1..T<MaxTypes>; a name that the service does not declare, or    *)
(* declares in a foreign namespace, is a reference pass 2 cannot resolve.  *)
(***************************************************************************)
TName(i) == <<"T" \o ToString(i)>>

\* child number p of a type: a long (target 0) or a reference to T<target>
RefChild(p, target) ==
    IF target = 0
    THEN Elem("element", PropName(p), TRUE, <<<<"long">>, XSD>>, <<>>)
    ELSE Elem("element", PropName(p), TRUE, <<TName(target), BING>>, <<>>)

RECURSIVE Total(_, _)
Total(counts, n) == IF n = 0 THEN 0 ELSE counts[n] + Total(counts, n - 1)

\* the service of n complex types in the service's own namespace, type i
\* with counts[i] children, the children of all types numbered through
Service(n, counts, targets) ==
    [i \in 1..n |->
        ComplexType(TName(i), BING,
                    [p \in 1..counts[i] |->
                        RefChild(p, targets[Total(counts, i - 1) + p])])]

\* at most one type of a service is special: declared in a foreign
\* namespace, or (when it has no children) a simpleType enumeration
Variants(s) ==
    {s}
    \cup {[s EXCEPT ![i].qname = ARR] : i \in 1..Len(s)}
    \cup {[s EXCEPT ![i].qname = DATACONTRACT] : i \in 1..Len(s)}
    \cup {[s EXCEPT ![i] = SimpleType(TName(i), BING, <<"Active", "Paused">>)] :
              i \in {j \in 1..Len(s) : s[j].children = <<>>}}

InitTypeMap ==
    /\ \E n \in 1..MaxTypes :
          \E counts \in [1..n -> 0..MaxElems] :
              /\ Total(counts, n) <= MaxElems
              /\ \E targets \in [1..Total(counts, n) -> 0..MaxTypes] :
                    types \in Variants(Service(n, counts, targets))
    /\ heap = <<>> /\ type_map = <<>> /\ pass1 = <<>>
    /\ tm_pc = "pass1" /\ tm_i = 1
    /\ SchemaIdle
    /\ DiscoverIdle
    /\ SyncIdle

\* one iteration of the loop of lines 151-157
Pass1Step ==
    /\ tm_pc = "pass1" /\ tm_i <= Len(types)
    /\ LET _type == types[tm_i]
           fragment == wsdl_type_to_schema(_type) IN
       IF ~ InOwnNamespace(_type.qname)
       THEN /\ tm_i' = tm_i + 1                                  \* continue
            /\ UNCHANGED <<heap, type_map, tm_pc>>
       ELSE IF fragment.tag = "raise"
       THEN /\ tm_pc' = "raised"
            /\ UNCHANGED <<heap, type_map, tm_i>>
       ELSE /\ heap' = Append(heap, fragment)
            /\ type_map' = DictSet(type_map, _type.name, Len(heap) + 1)
            /\ tm_i' = tm_i + 1
            /\ UNCHANGED tm_pc
    /\ UNCHANGED <<types, pass1>>
    /\ UNCHANGED <<schema_vars, discover_vars, sync_vars>>

\* the first loop is exhausted: the second one starts
Pass1Done ==
    /\ tm_pc = "pass1" /\ tm_i > Len(types)
    /\ tm_pc' = "pass2" /\ tm_i' = 1
    /\ pass1' = heap
    /\ UNCHANGED <<types, heap, type_map>>
    /\ UNCHANGED <<schema_vars, discover_vars, sync_vars>>

\* one iteration of the loop of lines 159-161
Pass2Step ==
    /\ tm_pc = "pass2" /\ tm_i <= Len(type_map)
    /\ heap' = IF heap[type_map[tm_i].val].tag = "object"       \* 'properties' in schema
               THEN fill_in_nested_types(type_map, heap, type_map[tm_i].val)
               ELSE heap
    /\ tm_i' = tm_i + 1
    /\ UNCHANGED <<types, type_map, pass1, tm_pc>>
    /\ UNCHANGED <<schema_vars, discover_vars, sync_vars>>

\* return type_map
ReturnTypeMap ==
    /\ tm_pc = "pass2" /\ tm_i > Len(type_map)
    /\ tm_pc' = "returned"
    /\ UNCHANGED <<types, heap, type_map, pass1, tm_i>>
    /\ UNCHANGED <<schema_vars, discover_vars, sync_vars>>

NextTypeMap == Pass1Step \/ Pass1Done \/ Pass2Step \/ ReturnTypeMap

SpecTypeMap == InitTypeMap /\ [][NextTypeMap]_vars

(***************************************************************************)
(* Claims about get_type_map (SpecTypeMap)                                 *)
(***************************************************************************)
Entries == 1..Len(type_map)
CellOf(a) == type_map[a].val
KeyOf(a) == type_map[a].key
Props(frag) == 1..Len(frag.properties)

\* in pass 1, property p of entry a was the placeholder naming entry b
Placeholder(a, p, b) ==
    /\ pass1[CellOf(a)].tag = "object"
    /\ p \in Props(pass1[CellOf(a)])
    /\ pass1[CellOf(a)].properties[p].val = Str(KeyOf(b))

\* A before B, A.p names B, B.q names C
Chain(a, p, b, q, c) ==
    a < b /\ Placeholder(a, p, b) /\ Placeholder(b, q, c)

\* C2 as stated: in the returned map, for A visited before B with A.p naming
\* B and B.q naming C, the fragment found at A.p still holds the placeholder
\* string naming C at q (one hop only).
C2_OneHopOnly ==
    tm_pc = "returned" =>
        \A a, b, c \in Entries :
            \A p \in Props(heap[CellOf(a)]), q \in Props(heap[CellOf(b)]) :
                Chain(a, p, b, q, c) =>
                    PropAt(heap, heap[CellOf(a)], p).properties[q].val = Str(KeyOf(c))

\* C2 amended: in the returned map, for A visited before B with A.p naming B
\* and B.q naming C, the fragment found at A.p is an object whose q is no
\* longer a string: it is the map's entry for C (the chain is resolved,
\* because A.p is the same dict object as the entry of B, which pass 2
\* fills in when it reaches B).
C2_ChainResolved ==
    tm_pc = "returned" =>
        \A a, b, c \in Entries :
            \A p \in Props(heap[CellOf(a)]), q \in Props(heap[CellOf(b)]) :
                Chain(a, p, b, q, c) =>
                    LET fb == PropAt(heap, heap[CellOf(a)], p) IN
                    /\ fb.tag = "object"
                    /\ fb.properties[q].val.tag # "str"
                    /\ Resolve(heap, fb.properties[q].val) = heap[CellOf(c)]

C2_Witness ==
    /\ tm_pc = "returned"
    /\ \E a, b, c \in Entries :
          /\ a # c /\ b # c
          /\ \E p \in Props(heap[CellOf(a)]), q \in Props(heap[CellOf(b)]) :
                Chain(a, p, b, q, c)

AllPrimitive(frag) ==
    /\ frag.tag = "object"
    /\ frag.properties # <<>>
    /\ \A i \in Props(frag) : frag.properties[i].val.tag = "schema"

NoPlaceholder(frag) ==
    \A i \in Props(frag) : frag.properties[i].val.tag # "str"

\* C3: in the returned map, when A.p named B in pass 1 and B has only
\* primitive properties, A.p holds B's full object fragment (not a string)
\* and B's entry equals its pass-1 fragment; and every entry that held no
\* placeholder string after pass 1 is unchanged by pass 2.
C3_ResolvedAndUnchanged ==
    tm_pc = "returned" =>
        /\ \A a, b \in Entries : \A p \in Props(heap[CellOf(a)]) :
              (Placeholder(a, p, b) /\ AllPrimitive(pass1[CellOf(b)])) =>
                  /\ heap[CellOf(a)].properties[p].val.tag # "str"
                  /\ PropAt(heap, heap[CellOf(a)], p) = pass1[CellOf(b)]
                  /\ heap[CellOf(b)] = pass1[CellOf(b)]
        /\ \A a \in Entries :
              NoPlaceholder(pass1[CellOf(a)]) => heap[CellOf(a)] = pass1[CellOf(a)]

C3_Witness ==
    /\ tm_pc = "returned"
    /\ \E a, b \in Entries : \E p \in Props(heap[CellOf(a)]) :
          /\ a # b
          /\ Placeholder(a, p, b) /\ AllPrimitive(pass1[CellOf(b)])
          /\ PropAt(heap, heap[CellOf(a)], p) = pass1[CellOf(b)]

\* property p of entry a was, in pass 1, a placeholder naming no key of the map
Gap(a, p) ==
    /\ pass1[CellOf(a)].tag = "object"
    /\ pass1[CellOf(a)].properties[p].val.tag = "str"
    /\ ~ TMHas(type_map, pass1[CellOf(a)].properties[p].val.name)

\* C4: get_type_map never raises on a placeholder that names no key of the
\* map and runs on to its return; in the returned map that property is still
\* the same placeholder string, and every placeholder that names a key is
\* replaced by that key's entry.
C4_GapLeftInPlace ==
    /\ tm_pc # "raised"
    /\ tm_pc # "returned" => ENABLED NextTypeMap
    /\ tm_pc = "returned" =>
          \A a \in Entries : \A p \in Props(heap[CellOf(a)]) :
              LET d == pass1[CellOf(a)].properties[p].val
                  v == heap[CellOf(a)].properties[p].val IN
              /\ Gap(a, p) => v = d
              /\ (d.tag = "str" /\ ~ Gap(a, p)) =>
                    /\ v.tag # "str"
                    /\ Resolve(heap, v) = heap[TMGet(type_map, d.name)]

\* a placeholder naming a type filtered out in pass 1 stays, next to a
\* resolved one
C4_Witness ==
    /\ tm_pc = "returned"
    /\ \E a, b \in Entries : \E p \in Props(heap[CellOf(a)]), q \in Props(heap[CellOf(b)]) :
          /\ Gap(a, p)
          /\ \E i \in 1..Len(types) :
                /\ types[i].name = pass1[CellOf(a)].properties[p].val.name
                /\ ~ InOwnNamespace(types[i].qname)
          /\ heap[CellOf(a)].properties[p].val.tag = "str"
          /\ <<a, p>> # <<b, q>>
          /\ heap[CellOf(b)].properties[q].val.tag = "ptr"

(***************************************************************************)
(* SpecDiscover: discover_core_objects against two remote services, each   *)
(* of which may be unreachable, may fail while its types are enumerated,   *)
(* and declares some set of type names in its own namespaces.              *)
(***************************************************************************)
CUSTOMER == "CustomerManagementService"
CAMPAIGN == "CampaignManagementService"

\* type_map.get(key): no KeyError for a missing key
lookup_get(tm, key) == [raised |-> FALSE, schema |-> IF key \in tm THEN key ELSE "None"]

\* type_map[key]
lookup(tm, key) ==
    IF key \in tm THEN [raised |-> FALSE, schema |-> key]
    ELSE [raised |-> TRUE, schema |-> "None"]

\* replication_key "" stands for None
get_stream_def(stream_name, pks, stream_schema, replication_key) ==
    [tap_stream_id |-> stream_name, stream |-> stream_name, key_properties |-> pks,
     schema |-> stream_schema,
     replication_key |-> replication_key,
     replication_method |-> IF replication_key # "" THEN "INCREMENTAL" ELSE "FULL_TABLE"]

InitDiscover ==
    /\ services \in [{CUSTOMER, CAMPAIGN} ->
                        [reachable : BOOLEAN, enumerable : BOOLEAN,
                         names : SUBSET {"Account", "Campaign", "AdGroup", "Ad"}]]
    /\ "Account" \notin services[CAMPAIGN].names
    /\ services[CUSTOMER].names \subseteq {"Account"}
    /\ d_pc = "customer_client" /\ d_type_map = {} /\ built = {}
    /\ streams = <<>> /\ stdout = <<>>
    /\ SchemaIdle /\ TypeMapIdle /\ SyncIdle

\* client = ServiceClient(service)
Connect(service, at, next) ==
    /\ d_pc = at
    /\ d_pc' = IF services[service].reachable THEN next ELSE "raised"
    /\ UNCHANGED <<services, d_type_map, built, streams, stdout>>
    /\ UNCHANGED <<schema_vars, typemap_vars, sync_vars>>

\* type_map = get_type_map(client)
BuildTypeMap(service, at, next) ==
    /\ d_pc = at
    /\ IF services[service].enumerable
       THEN /\ d_type_map' = services[service].names
            /\ built' = built \cup {service}
            /\ d_pc' = next
       ELSE /\ d_pc' = "raised"
            /\ UNCHANGED <<d_type_map, built>>
    /\ UNCHANGED <<services, streams, stdout>>
    /\ UNCHANGED <<schema_vars, typemap_vars, sync_vars>>

\* streams.append(get_stream_def(stream_name, ['Id'], type_map[entity]))
AppendStream(entity, stream_name, at, next) ==
    /\ d_pc = at
    /\ LET found == lookup(d_type_map, entity) IN
       IF found.raised
       THEN /\ d_pc' = "raised"                                  \* KeyError
            /\ UNCHANGED streams
       ELSE /\ streams' = Append(streams, get_stream_def(stream_name, <<"Id">>, found.schema, ""))
            /\ d_pc' = next
    /\ UNCHANGED <<services, d_type_map, built, stdout>>
    /\ UNCHANGED <<schema_vars, typemap_vars, sync_vars>>

ConnectCustomer  == Connect(CUSTOMER, "customer_client", "customer_types")
TypeMapCustomer  == BuildTypeMap(CUSTOMER, "customer_types", "Account")
StreamAccounts   == AppendStream("Account", "accounts", "Account", "campaign_client")
ConnectCampaign  == Connect(CAMPAIGN, "campaign_client", "campaign_types")
TypeMapCampaign  == BuildTypeMap(CAMPAIGN, "campaign_types", "Campaign")
StreamCampaigns  == AppendStream("Campaign", "campaigns", "Campaign", "AdGroup")
StreamAdGroups   == AppendStream("AdGroup", "ad_groups", "AdGroup", "Ad")
StreamAds        == AppendStream("Ad", "ads", "Ad", "dump")

\* json.dump({'streams': streams}, sys.stdout, indent=2)
DumpCatalog ==
    /\ d_pc = "dump"
    /\ stdout' = Append(stdout, [streams |-> streams])
    /\ d_pc' = "done"
    /\ UNCHANGED <<services, d_type_map, built, streams>>
    /\ UNCHANGED <<schema_vars, typemap_vars, sync_vars>>

NextDiscover ==
    \/ ConnectCustomer \/ TypeMapCustomer \/ StreamAccounts
    \/ ConnectCampaign \/ TypeMapCampaign
    \/ StreamCampaigns \/ StreamAdGroups \/ StreamAds
    \/ DumpCatalog

SpecDiscover == InitDiscover /\ [][NextDiscover]_vars

Catalog ==
    [streams |-> <<get_stream_def("accounts", <<"Id">>, "Account", ""),
                   get_stream_def("campaigns", <<"Id">>, "Campaign", ""),
                   get_stream_def("ad_groups", <<"Id">>, "AdGroup", ""),
                   get_stream_def("ads", <<"Id">>, "Ad", "")>>]

\* some connection, enumeration or required entity is missing
DiscoveryMustFail ==
    \/ \E sv \in {CUSTOMER, CAMPAIGN} :
          ~ services[sv].reachable \/ ~ services[sv].enumerable
    \/ "Account" \notin services[CUSTOMER].names
    \/ {"Campaign", "AdGroup", "Ad"} \ services[CAMPAIGN].names # {}

\* C8: discovery output is all-or-nothing.  Whenever a service cannot be
\* reached or enumerated, or Account, Campaign, AdGroup or Ad is missing from
\* its type map, nothing is ever written; nothing is written before both
\* type maps are built; and what is written is one catalog holding exactly
\* the streams accounts, campaigns, ad_groups, ads in that order.
C8_AllOrNothing ==
    /\ DiscoveryMustFail => stdout = <<>>
    /\ d_pc = "raised" => stdout = <<>>
    /\ stdout # <<>> => (built = {CUSTOMER, CAMPAIGN} /\ stdout = <<Catalog>>)
    /\ d_pc = "done" => stdout = <<Catalog>>

\* the run failed on a missing entity after streams had been accumulated
C8_Witness ==
    /\ d_pc = "raised"
    /\ Len(streams) = 2
    /\ built = {CUSTOMER, CAMPAIGN}
    /\ "AdGroup" \notin services[CAMPAIGN].names
    /\ stdout = <<>>

(***************************************************************************)
(* Spec: do_sync_all_accounts under main, one step per remote call.  The   *)
(* remote hierarchy is any forest of at most MaxNodes campaigns, ad groups *)
(* and ads; every remote call may fail.                                    *)
(***************************************************************************)
Streams == {"accounts", "campaigns", "ad_groups", "ads"}

\* identifiers: account a, its campaign c, its ad group g, its ad d
Id(a, c, g, d) == [a |-> a, c |-> c, g |-> g, d |-> d]

RECURSIVE Sum(_)
Sum(ns) == IF ns = <<>> THEN 0 ELSE Head(ns) + Sum(Tail(ns))

\* lists of ad groups (each the number of its ads) of at most b nodes
RECURSIVE GroupLists(_)
GroupLists(b) ==
    IF b = 0 THEN {<<>>}
    ELSE {<<>>} \cup UNION {{<<d>> \o s : s \in GroupLists(b - 1 - d)} : d \in 0..(b - 1)}

GroupCost(g) == Len(g) + Sum(g)

\* lists of campaigns of at most b nodes
RECURSIVE CampaignLists(_)
CampaignLists(b) ==
    IF b = 0 THEN {<<>>}
    ELSE {<<>>} \cup UNION {{<<g>> \o s : s \in CampaignLists(b - 1 - GroupCost(g))} :
                               g \in GroupLists(b - 1)}

RECURSIVE CampaignCost(_)
CampaignCost(cs) ==
    IF cs = <<>> THEN 0 ELSE 1 + GroupCost(Head(cs)) + CampaignCost(Tail(cs))

\* the hierarchies of n accounts of at most b nodes
RECURSIVE Forests(_, _)
Forests(n, b) ==
    IF n = 0 THEN {<<>>}
    ELSE UNION {{<<cs>> \o f : f \in Forests(n - 1, b - CampaignCost(cs))} :
                   cs \in CampaignLists(b)}

\* what the remote holds
CampaignsOf(a) == [c \in 1..Len(remote[a]) |-> Id(a, c, 0, 0)]
AdGroupsOf(cid) == [g \in 1..Len(remote[cid.a][cid.c]) |-> Id(cid.a, cid.c, g, 0)]
AdsOf(gid) == [d \in 1..remote[gid.a][gid.c][gid.g] |-> Id(gid.a, gid.c, gid.g, d)]

\* GetAdsByAdGroupId answers for a single ad-group identifier.  A list is
\* sent as one AdGroupId element per item; the operation then answers for
\* one of them (or faults, like every call).
GetAdsByAdGroupId(AdGroupId) == {AdsOf(AdGroupId[i]) : i \in 1..Len(AdGroupId)}

Init ==
    /\ \E n \in 1..MaxAccounts :
          /\ account_ids = [i \in 1..n |-> i]
          /\ remote \in Forests(n, MaxNodes)
    /\ selected_streams \in SUBSET Streams
    /\ pc = "start" /\ acct = 1
    /\ campaign_ids = <<>> /\ ci = 0 /\ ad_group_ids = <<>> /\ gi = 0
    /\ records = <<>> /\ calls = <<>> /\ critical = <<>>
    /\ SchemaIdle /\ TypeMapIdle /\ DiscoverIdle

Call(op, arg, ok) == [op |-> op, arg |-> arg, ok |-> ok]

\* singer.write_record(stream, x) for every x of a response
write_records(stream, ids, at) ==
    [i \in 1..Len(ids) |-> [stream |-> stream, id |-> ids[i], at |-> at]]

\* an exception swallowed by the loop over the accounts, which goes on
on_exception_continue(exc) ==
    IF acct < Len(account_ids)
    THEN [pc |-> "start", acct |-> acct + 1, critical |-> critical]
    ELSE [pc |-> "done", acct |-> acct, critical |-> critical]

\* an exception leaves every frame up to main, which logs it at critical
\* severity and raises it again
on_exception(exc) ==
    [pc |-> "failed", acct |-> acct, critical |-> Append(critical, exc)]

\* for account_id in account_ids: ... ; LOGGER.info("Sync Completed")
next_account ==
    IF acct < Len(account_ids)
    THEN [pc |-> "start", acct |-> acct + 1]
    ELSE [pc |-> "done", acct |-> acct]

\* line 275 without the test of the selection
descend_always(ids_truthy, selected) == ids_truthy

\* campaign_ids and ('ad_groups' in selected_streams or 'ads' in selected_streams)
descend(ids_truthy, selected) ==
    ids_truthy /\ ("ad_groups" \in selected \/ "ads" \in selected)

\* ad_group_ids.append(list(map(lambda x: x['Id'], ad_groups)))
collect(ids, ad_groups) == Append(ids, ad_groups)

\* the remote call failed: nothing else of the step happens
Fails(op, arg) ==
    LET e == on_exception(op) IN
    /\ calls' = Append(calls, Call(op, arg, FALSE))
    /\ pc' = e.pc /\ acct' = e.acct /\ critical' = e.critical
    /\ UNCHANGED <<campaign_ids, ci, ad_group_ids, gi, records>>

Goto(next) == pc' = next.pc /\ acct' = next.acct

SyncFrame ==
    /\ UNCHANGED <<remote, account_ids, selected_streams>>
    /\ UNCHANGED <<schema_vars, typemap_vars, discover_vars>>

\* create_sdk_client: request_oauth_tokens_by_refresh_token
create_sdk_client(service, next) ==
    \E ok \in BOOLEAN :
        IF ok
        THEN /\ calls' = Append(calls, Call("RefreshToken", <<>>, TRUE))
             /\ pc' = next
             /\ UNCHANGED <<acct, campaign_ids, ci, ad_group_ids, gi, records, critical>>
        ELSE Fails("RefreshToken", <<>>)

\* sync_account_stream, line 214
CreateCustomerClient ==
    /\ pc = "start" /\ "accounts" \in selected_streams
    /\ create_sdk_client("CustomerManagementService", "GetAccount")
    /\ SyncFrame

\* sync_account_stream, lines 215-217
sync_account_stream ==
    /\ pc = "GetAccount"
    /\ LET arg == <<Id(account_ids[acct], 0, 0, 0)>> IN
       \E ok \in BOOLEAN :
         IF ok
         THEN /\ calls' = Append(calls, Call("GetAccount", arg, TRUE))
              /\ records' = records \o write_records("accounts", arg, Len(calls) + 1)
              /\ pc' = "campaign_client"
              /\ UNCHANGED <<acct, campaign_ids, ci, ad_group_ids, gi, critical>>
         ELSE Fails("GetAccount", arg)
    /\ SyncFrame

\* sync_core_objects, line 271
CreateCampaignClient ==
    /\ \/ pc = "start" /\ "accounts" \notin selected_streams
       \/ pc = "campaign_client"
    /\ create_sdk_client("CampaignManagementService", "GetCampaigns")
    /\ SyncFrame

\* sync_campaigns, and the test of line 275 on what it returned
sync_campaigns ==
    /\ pc = "GetCampaigns"
    /\ LET account_id == account_ids[acct]
           arg == <<Id(account_id, 0, 0, 0)>>
           campaigns == CampaignsOf(account_id)
           has == campaigns # <<>>                     \* 'Campaign' in response_dict
       IN
       \E ok \in BOOLEAN :
         IF ok
         THEN /\ calls' = Append(calls, Call("GetCampaignsByAccountId", arg, TRUE))
              /\ records' = IF has /\ "campaigns" \in selected_streams
                            THEN records \o write_records("campaigns", campaigns, Len(calls) + 1)
                            ELSE records
              /\ campaign_ids' = campaigns             \* <<>> stands for None
              /\ ci' = 0 /\ ad_group_ids' = <<>> /\ gi' = 0
              /\ IF descend(has, selected_streams)
                 THEN pc' = "GetAdGroups" /\ UNCHANGED acct
                 ELSE Goto(next_account)
              /\ UNCHANGED critical
         ELSE Fails("GetCampaignsByAccountId", arg)
    /\ SyncFrame

\* one iteration of the loop of sync_ad_groups; after the last one, line 277
sync_ad_groups ==
    /\ pc = "GetAdGroups" /\ ci < Len(campaign_ids)
    /\ LET campaign_id == campaign_ids[ci + 1]
           ad_groups == AdGroupsOf(campaign_id)
           has == ad_groups # <<>>                     \* 'AdGroup' in response_dict
           ids == IF has THEN collect(ad_group_ids, ad_groups) ELSE ad_group_ids
       IN
       \E ok \in BOOLEAN :
         IF ok
         THEN /\ calls' = Append(calls, Call("GetAdGroupsByCampaignId", <<campaign_id>>, TRUE))
              /\ records' = IF has /\ "ad_groups" \in selected_streams
                            THEN records \o write_records("ad_groups", ad_groups, Len(calls) + 1)
                            ELSE records
              /\ ad_group_ids' = ids
              /\ ci' = ci + 1
              /\ IF ci + 1 < Len(campaign_ids)
                 THEN UNCHANGED <<pc, acct>>
                 ELSE IF "ads" \in selected_streams /\ ids # <<>>
                 THEN pc' = "GetAds" /\ UNCHANGED acct
                 ELSE Goto(next_account)
              /\ UNCHANGED <<campaign_ids, gi, critical>>
         ELSE Fails("GetAdGroupsByCampaignId", <<campaign_id>>)
    /\ SyncFrame

\* one iteration of the loop of sync_ads
sync_ads ==
    /\ pc = "GetAds" /\ gi < Len(ad_group_ids)
    /\ LET ad_group_id == ad_group_ids[gi + 1] IN
       \E ok \in BOOLEAN :
         IF ok
         THEN /\ calls' = Append(calls, Call("GetAdsByAdGroupId", ad_group_id, TRUE))
              /\ \E ads \in GetAdsByAdGroupId(ad_group_id) :
                    records' = records \o write_records("ads", ads, Len(calls) + 1)
              /\ gi' = gi + 1
              /\ IF gi + 1 < Len(ad_group_ids)
                 THEN UNCHANGED <<pc, acct>>
                 ELSE Goto(next_account)
              /\ UNCHANGED <<campaign_ids, ci, ad_group_ids, critical>>
         ELSE Fails("GetAdsByAdGroupId", ad_group_id)
    /\ SyncFrame

Next ==
    \/ CreateCustomerClient \/ sync_account_stream \/ CreateCampaignClient
    \/ sync_campaigns \/ sync_ad_groups \/ sync_ads

Spec == Init /\ [][Next]_vars

(***************************************************************************)
(* Claims about the sync (Spec)                                            *)
(***************************************************************************)
Accounts == 1..Len(account_ids)
AllCampaigns == UNION {{CampaignsOf(a)[c] : c \in 1..Len(remote[a])} : a \in Accounts}
AllAdGroups == UNION {{AdGroupsOf(cid)[g] : g \in 1..Len(AdGroupsOf(cid))} :
                         cid \in AllCampaigns}
AllAds == UNION {{AdsOf(gid)[d] : d \in 1..Len(AdsOf(gid))} : gid \in AllAdGroups}

RecordsOf(stream) == {i \in 1..Len(records) : records[i].stream = stream}

\* one record of the stream per identifier, and no other record of the stream
ExactlyOnePer(stream, ids) ==
    /\ \A id \in ids :
          Cardinality({i \in RecordsOf(stream) : records[i].id = id}) = 1
    /\ Cardinality(RecordsOf(stream)) = Cardinality(ids)

\* every record of the stream comes after the record of its parent
ParentFirst(stream, parent_stream, ParentOf(_)) ==
    \A i \in RecordsOf(stream) :
        \E j \in RecordsOf(parent_stream) :
            j < i /\ records[j].id = ParentOf(records[i].id)

CampaignOf(gid) == Id(gid.a, gid.c, 0, 0)
AdGroupOf(aid) == Id(aid.a, aid.c, aid.g, 0)

\* C1 as stated: with all four streams selected, a completed sync of one
\* account has emitted exactly one campaigns record per campaign, one
\* ad_groups record per ad group and one ads record per ad, each after the
\* record of its parent.
C1_OneRecordPerEntity ==
    (pc = "done" /\ selected_streams = Streams /\ Len(account_ids) = 1) =>
        /\ ExactlyOnePer("campaigns", AllCampaigns)
        /\ ExactlyOnePer("ad_groups", AllAdGroups)
        /\ ExactlyOnePer("ads", AllAds)
        /\ ParentFirst("ad_groups", "campaigns", CampaignOf)
        /\ ParentFirst("ads", "ad_groups", AdGroupOf)

\* C9: once a remote call has failed it is the last remote call, every record
\* was emitted before it, and the failure has been logged at critical
\* severity and raised out of main; nothing is logged otherwise.
C9_FailureStopsTheSync ==
    /\ \A i \in 1..Len(calls) :
          ~ calls[i].ok =>
              /\ i = Len(calls)
              /\ \A r \in 1..Len(records) : records[r].at < i
              /\ pc = "failed"
              /\ critical = <<calls[i].op>>
    /\ pc # "failed" => critical = <<>>

\* a call for the first of two accounts failed after records were emitted
C9_Witness ==
    /\ pc = "failed" /\ acct = 1 /\ Len(account_ids) = 2
    /\ calls[Len(calls)].op = "GetAdGroupsByCampaignId"
    /\ ~ calls[Len(calls)].ok
    /\ records # <<>>
    /\ remote[2] # <<>>

\* C10: a record of stream s is emitted only if s is selected;
\* GetAdGroupsByCampaignId is called only if ad_groups or ads is selected and
\* the campaign fetch of that account returned a Campaign collection;
\* GetAdsByAdGroupId is called only if ads is selected; and
\* GetCampaignsByAccountId has been called for every account whose sync the
\* run has gone through, whatever the selection.
C10_SelectionGates ==
    /\ \A r \in 1..Len(records) : records[r].stream \in selected_streams
    /\ \A i \in 1..Len(calls) :
          /\ calls[i].op = "GetAdGroupsByCampaignId" =>
                /\ "ad_groups" \in selected_streams \/ "ads" \in selected_streams
                /\ remote[calls[i].arg[1].a] # <<>>
                /\ \E j \in 1..(i - 1) :
                      /\ calls[j].op = "GetCampaignsByAccountId" /\ calls[j].ok
                      /\ calls[j].arg[1].a = calls[i].arg[1].a
          /\ calls[i].op = "GetAdsByAdGroupId" => "ads" \in selected_streams
    /\ \A k \in Accounts :
          (k < acct \/ pc = "done") =>
              \E i \in 1..Len(calls) :
                  /\ calls[i].op = "GetCampaignsByAccountId"
                  /\ calls[i].arg = <<Id(account_ids[k], 0, 0, 0)>>

\* a completed sync of two accounts with only ads selected
C10_Witness ==
    /\ pc = "done" /\ Len(account_ids) = 2
    /\ selected_streams = {"ads"}
    /\ \E i \in 1..Len(calls) : calls[i].op = "GetAdsByAdGroupId"
    /\ \E i \in 1..Len(calls) : calls[i].op = "GetAdGroupsByCampaignId"
    /\ records # <<>>

====
